---- MODULE Spec2Model ----
(***************************************************************************)
(* A model of enw (src/src/lib.rs): the value tokenizer parse_value, the   *)
(* line parser parse_env_line, the document parser parse_env_doc and the   *)
(* merge performed by run.                                                 *)
(*                                                                         *)
(* Text is modelled as a sequence of characters and a character as its     *)
(* Unicode code point, so that Rust's classification of characters         *)
(* (is_whitespace, is_ascii_alphabetic), the UTF-8 width of a character    *)
(* and the ordering of strings are computed and not assumed.               *)
(***************************************************************************)
EXTENDS Integers, Sequences, FiniteSets, TLC

VARIABLES
    v,          \* parse_value: the raw value being tokenized
    pos,        \* parse_value: number of characters of v consumed by the loop
    state,      \* parse_value: the stack of S
    out,        \* parse_value: the accumulated output
    tk,         \* parse_value: "loop" | "break" | "ok" | an error | "panic"
    ret,        \* parse_value: the String returned with Ok
    line,       \* parse_env_line: the line given
    lpc,        \* parse_env_line: "split" | "validate" | "tokenize" | "done"
    key,        \* parse_env_line: the trimmed first part
    raw,        \* parse_env_line: the trimmed second part
    handed,     \* parse_env_line: the arguments parse_value was called with
    lres,       \* parse_env_line: the Result returned
    text,       \* parse_env_doc: the text given
    dpc,        \* parse_env_doc: "start" | "done"
    outcomes,   \* parse_env_doc: the Vec returned
    pc,         \* run: "start" | "built" | "loaded" | "done"
    matches,    \* run: the parsed command line (the ArgMatches)
    ambient,    \* run: the environment the process inherited, once it is used
    fs,         \* run: what each path of env_files is on the filesystem
    opt_builder, \* run: the OptionsBuilder
    warnings,   \* run: the warnings collected
    env_files,  \* run: the texts read, in order
    env_vars,   \* run: the sorted Vec of (key, value)
    stderr,     \* run: the warnings printed
    stdout,     \* run: the (key, value) lines printed
    launched,   \* run: the command exec'ed, with its arguments and environment
    result      \* run: how run ended

tokVars == <<v, pos, state, out, tk, ret>>

lineVars == <<line, lpc, key, raw, handed, lres>>

docVars == <<text, dpc, outcomes>>

runVars == <<pc, matches, ambient, fs, opt_builder, warnings, env_files, env_vars,
             stderr, stdout, launched, result>>

vars == <<tokVars, lineVars, docVars, runVars>>

----------------------------------------------------------------------------
(* Characters the code names, and the characters of the inputs.            *)

DQ == 34        \* '"'
SQ == 39        \* '\''
BS == 92        \* '\\'
HASH == 35      \* '#'
EQ == 61        \* '='
SP == 32        \* ' '
DOLLAR == 36    \* '$'
NL == 10        \* '\n'
LetterA == 65   \* 'A'
LetterB == 66   \* 'B'
Digit1 == 49    \* '1'
Digit2 == 50    \* '2'
Digit8 == 56    \* '8'
NBSP == 160     \* U+00A0, a White_Space character two bytes wide in UTF-8

UNDERSCORE == 95 \* '_'
DOT == 46       \* '.'

Digit3 == 51    \* '3'

\* Bounds of the model.
MaxLen == 4
MaxLineLen == 4
MaxTextLen == 5
MaxFiles == 2

----------------------------------------------------------------------------
(* Strings.                                                                *)

SeqsUpTo(S, n) == UNION {[1..k -> S] : k \in 0..n}

Last(s) == s[Len(s)]

Front(s) == SubSeq(s, 1, Len(s) - 1)

\* char::is_whitespace: the Unicode White_Space property.
is_whitespace(c) ==
    \/ c \in 9..13
    \/ c \in {32, 133, 160, 5760, 8232, 8233, 8239, 8287, 12288}
    \/ c \in 8192..8202

\* char::is_ascii_alphabetic
is_ascii_alphabetic(c) == c \in 65..90 \/ c \in 97..122

\* char::len_utf8
len_utf8(c) == IF c < 128 THEN 1 ELSE IF c < 2048 THEN 2 ELSE IF c < 65536 THEN 3 ELSE 4

\* String::len: the length in bytes.
RECURSIVE byte_len(_)
byte_len(s) == IF s = <<>> THEN 0 ELSE len_utf8(s[1]) + byte_len(Tail(s))

\* The number of trailing characters of s that are whitespace
\* (s.chars().rev().take_while(is_whitespace).count()).
RECURSIVE trailing_whitespace(_)
trailing_whitespace(s) ==
    IF s = <<>> \/ ~is_whitespace(Last(s)) THEN 0
    ELSE 1 + trailing_whitespace(Front(s))

RECURSIVE leading_whitespace(_)
leading_whitespace(s) ==
    IF s = <<>> \/ ~is_whitespace(s[1]) THEN 0
    ELSE 1 + leading_whitespace(Tail(s))

\* str::trim_start, str::trim_end, str::trim
trim_start(s) == SubSeq(s, leading_whitespace(s) + 1, Len(s))

trim_end(s) == SubSeq(s, 1, Len(s) - trailing_whitespace(s))

trim(s) == trim_end(trim_start(s))

\* String::truncate(new_len), new_len in bytes: the prefix of s that is
\* new_len bytes long; a new_len inside a character panics.
truncate(s, new_len) ==
    IF \E k \in 0..Len(s) : byte_len(SubSeq(s, 1, k)) = new_len
    THEN [panic |-> FALSE,
          s |-> SubSeq(s, 1, CHOOSE k \in 0..Len(s) : byte_len(SubSeq(s, 1, k)) = new_len)]
    ELSE [panic |-> TRUE, s |-> s]

\* trim_end_whitespace(&mut s): counts characters, truncates by bytes.
trim_end_whitespace(s) == truncate(s, byte_len(s) - trailing_whitespace(s))

----------------------------------------------------------------------------
(* parse_value: the quote/escape state machine.                            *)

S == {"DoubleQuote", "Escape", "SingleQuote", "Start"}

\* start_escapable without `$`.
start_escapable_no_dollar(c) == c \in {DQ, SQ, SP, BS}

\* The characters an unquoted backslash may escape (line 190).
start_escapable(c) == c \in {DQ, SQ, SP, DOLLAR, BS}

\* quote_escape_resolves with either quote character resolved in either quote.
quote_escape_resolves_any_quote(u, c) ==
    u \in {"DoubleQuote", "SingleQuote"} /\ c \in {DQ, SQ, BS}

\* Inside a quote, the escapes that resolve to the bare character
\* (lines 179-182): u is the quote state under the Escape.
quote_escape_resolves(u, c) ==
    \/ u = "DoubleQuote" /\ c = DQ
    \/ u = "SingleQuote" /\ c = SQ
    \/ u = "DoubleQuote" /\ c = BS
    \/ u = "SingleQuote" /\ c = BS

\* The arm `S::Escape` of the match (lines 176-199). t is the tokenizer's
\* record [state, out, tk, bad]; bad is the character an error names.
escape_arm(t, c) ==
    LET popped == Front(t.state) IN
    IF popped = <<>> THEN [t EXCEPT !.state = popped, !.tk = "panic"]
    ELSE
      LET u == Last(popped) IN
      IF quote_escape_resolves(u, c)
      THEN [t EXCEPT !.state = popped, !.out = Append(t.out, c)]
      ELSE IF u \in {"DoubleQuote", "SingleQuote"}
      THEN [t EXCEPT !.state = popped, !.out = t.out \o <<BS, c>>]
      ELSE IF u = "Start"
      THEN IF start_escapable(c)
           THEN [t EXCEPT !.state = popped, !.out = Append(t.out, c)]
           ELSE [t EXCEPT !.state = popped, !.tk = "invalid_escape", !.bad = <<c>>]
      ELSE [t EXCEPT !.state = popped, !.tk = "panic"]

\* Whether c closes the quote s (line 201).
closes_quote(s, c) ==
    \/ s = "DoubleQuote" /\ c = DQ
    \/ s = "SingleQuote" /\ c = SQ

\* The arm `S::DoubleQuote | S::SingleQuote` (lines 200-211).
quote_arm(t, s, c) ==
    IF closes_quote(s, c)
    THEN [t EXCEPT !.state = Append(Front(t.state), "Start")]
    ELSE IF c = BS
    THEN [t EXCEPT !.state = Append(t.state, "Escape")]
    ELSE [t EXCEPT !.out = Append(t.out, c)]

\* Whether c, read in the Start state, begins a comment (line 222).
begins_comment(c) == c = HASH

\* start_arm pushing the quote state on the stack and not replacing Start.
start_arm_push_quote(t, c) ==
    IF c = DQ THEN [t EXCEPT !.state = Append(t.state, "DoubleQuote")]
    ELSE IF c = SQ THEN [t EXCEPT !.state = Append(t.state, "SingleQuote")]
    ELSE IF c = BS THEN [t EXCEPT !.state = Append(t.state, "Escape")]
    ELSE IF begins_comment(c) THEN [t EXCEPT !.tk = "break"]
    ELSE [t EXCEPT !.out = Append(t.out, c)]

\* The arm `S::Start` (lines 212-228).
start_arm(t, c) ==
    IF c = DQ THEN [t EXCEPT !.state = Append(Front(t.state), "DoubleQuote")]
    ELSE IF c = SQ THEN [t EXCEPT !.state = Append(Front(t.state), "SingleQuote")]
    ELSE IF c = BS THEN [t EXCEPT !.state = Append(t.state, "Escape")]
    ELSE IF begins_comment(c) THEN [t EXCEPT !.tk = "break"]
    ELSE [t EXCEPT !.out = Append(t.out, c)]

\* One iteration of the loop over v.chars() (lines 173-230).
loop_body(t, c) ==
    IF t.state = <<>> THEN [t EXCEPT !.tk = "panic"]
    ELSE
      LET s == Last(t.state) IN
      IF s = "Escape" THEN escape_arm(t, c)
      ELSE IF s \in {"DoubleQuote", "SingleQuote"} THEN quote_arm(t, s, c)
      ELSE start_arm(t, c)

\* end_error deciding by the bottom of the stack and not by its top.
end_error_by_bottom(st) ==
    IF st # <<>> /\ st[1] \in {"DoubleQuote", "SingleQuote"}
    THEN "unmatched_quotes"
    ELSE "error_parsing_value"

\* The error chosen when the stack is not [Start] (lines 232-237).
end_error(st) ==
    IF st # <<>> /\ Last(st) \in {"DoubleQuote", "SingleQuote"}
    THEN "unmatched_quotes"
    ELSE "error_parsing_value"

\* After the loop (lines 231-240): the check of the stack, then the trim.
\* val is the returned String when tk = "ok".
after_loop(t) ==
    IF ~(Len(t.state) = 1 /\ t.state[1] = "Start")
    THEN [tk |-> end_error(t.state), val |-> <<>>, bad |-> <<>>]
    ELSE LET r == trim_end_whitespace(t.out) IN
         IF r.panic THEN [tk |-> "panic", val |-> <<>>, bad |-> <<>>]
         ELSE [tk |-> "ok", val |-> r.s, bad |-> <<>>]

\* The tokenizer before the first character (lines 171-172).
tok_init == [state |-> <<"Start">>, out |-> <<>>, tk |-> "loop", bad |-> <<>>]

\* The loop run over the characters of w from position k on.
RECURSIVE run_loop(_, _, _)
run_loop(t, w, k) ==
    IF t.tk # "loop" \/ k > Len(w) THEN t
    ELSE run_loop(loop_body(t, w[k]), w, k + 1)

\* parse_value(w) as a function: [tk, val, bad].
parse_value(w) ==
    LET t == run_loop(tok_init, w, 1) IN
    IF t.tk \in {"loop", "break"} THEN after_loop(t)
    ELSE [tk |-> t.tk, val |-> <<>>, bad |-> t.bad]

----------------------------------------------------------------------------
(* parse_env_line and key_is_valid.                                        *)

\* The Results of parse_env_line. For an invalid key, key is the key the
\* message names; for an invalid escape, val is the character it names.
LineOk(k, val) == [kind |-> "Ok", err |-> "", key |-> k, val |-> val]

LineErr(e, k, bad) == [kind |-> "Err", err |-> e, key |-> k, val |-> bad]

LinePanic == [kind |-> "Panic", err |-> "", key |-> <<>>, val |-> <<>>]

NoResult == [kind |-> "None", err |-> "", key |-> <<>>, val |-> <<>>]

\* str::contains(c)
contains(s, c) == \E i \in 1..Len(s) : s[i] = c

\* The index of the first c in s, Len(s) + 1 when there is none.
RECURSIVE find(_, _, _)
find(s, c, i) ==
    IF i > Len(s) \/ s[i] = c THEN i ELSE find(s, c, i + 1)

\* splitn2 as line.split('='): the second part ends at the next '='.
splitn2_every_eq(l) ==
    LET i == find(l, EQ, 1) IN
    IF i > Len(l) THEN <<l>>
    ELSE <<SubSeq(l, 1, i - 1), SubSeq(l, i + 1, find(l, EQ, i + 1) - 1)>>

\* line.splitn(2, '='): one part when the line has no '=', else the text
\* before the first '=' and the whole remainder after it.
splitn2(l) ==
    LET i == find(l, EQ, 1) IN
    IF i > Len(l) THEN <<l>>
    ELSE <<SubSeq(l, 1, i - 1), SubSeq(l, i + 1, Len(l))>>

\* The parts of the line, each trimmed (line 145).
line_parts(l) == [i \in 1..Len(splitn2(l)) |-> trim(splitn2(l)[i])]

\* key_is_valid asking every character to be alphanumeric or an underscore.
key_is_valid_strict(k) ==
    /\ k # <<>>
    /\ is_ascii_alphabetic(k[1]) \/ k[1] = UNDERSCORE
    /\ \A i \in 1..Len(k) :
          is_ascii_alphabetic(k[i]) \/ k[i] \in 48..57 \/ k[i] = UNDERSCORE

\* key_is_valid (lines 154-161)
key_is_valid(k) ==
    /\ k # <<>>
    /\ \A i \in 1..(IF Len(k) < 1 THEN Len(k) ELSE 1) :
          is_ascii_alphabetic(k[i]) \/ k[i] = UNDERSCORE
    /\ ~\E i \in 1..Len(k) : is_whitespace(k[i])

\* parts.next().unwrap_or("") (line 150)
raw_value(parts) == IF Len(parts) >= 2 THEN parts[2] ELSE <<>>

\* The Result of parse_env_line for key k and the result r of parse_value
\* (lines 150-151).
line_result(k, r) ==
    IF r.tk = "ok" THEN LineOk(k, r.val)
    ELSE IF r.tk = "panic" THEN LinePanic
    ELSE LineErr(r.tk, <<>>, r.bad)

\* parse_env_line (lines 144-152) as a function.
parse_env_line(l) ==
    LET parts == line_parts(l) IN
    IF ~key_is_valid(parts[1]) THEN LineErr("invalid_key", parts[1], <<>>)
    ELSE line_result(parts[1], parse_value(raw_value(parts)))

----------------------------------------------------------------------------
(* parse_env_doc.                                                          *)

\* str::lines for a text without carriage returns: the text split at each
\* '\n', the empty piece after a final '\n' not being a line.
RECURSIVE lines(_)
lines(t) ==
    IF t = <<>> THEN <<>>
    ELSE LET i == find(t, NL, 1) IN
         <<SubSeq(t, 1, i - 1)>> \o lines(SubSeq(t, i + 1, Len(t)))

\* str::starts_with(c)
starts_with(s, c) == s # <<>> /\ s[1] = c

\* is_declaration without the test for a comment.
is_declaration_no_comment(l) == contains(l, EQ)

\* The filter of line 139, applied to a line whose start is trimmed.
is_declaration(l) == contains(l, EQ) /\ ~starts_with(l, HASH)

\* The lines of the text as they reach the filter (lines 137-138).
doc_lines(t) == [i \in 1..Len(lines(t)) |-> trim_start(lines(t)[i])]

\* Iterator::filter(is_declaration)
RECURSIVE filter_declarations(_)
filter_declarations(ls) ==
    IF ls = <<>> THEN <<>>
    ELSE (IF is_declaration(ls[1]) THEN <<ls[1]>> ELSE <<>>)
         \o filter_declarations(Tail(ls))

\* parse_env_doc (lines 136-142): the Vec of Results; a panic of a line
\* parser is the panic of parse_env_doc itself.
parse_env_doc(t) ==
    LET ds == filter_declarations(doc_lines(t)) IN
    [i \in 1..Len(ds) |-> parse_env_line(ds[i])]

----------------------------------------------------------------------------
(* run and OptionsBuilder::with_arg_matches.                               *)

\* A HashMap<String, String> is a function from its keys to their values.
EmptyMap == [k \in {} |-> <<>>]

\* HashMap::insert
insert(m, k, val) == [x \in DOMAIN m \cup {k} |-> IF x = k THEN val ELSE m[x]]

\* HashMap::extend / collect: the pairs inserted in the order they come.
RECURSIVE extend(_, _)
extend(m, pairs) ==
    IF pairs = <<>> THEN m
    ELSE extend(insert(m, pairs[1][1], pairs[1][2]), Tail(pairs))

\* The order of String: byte-wise, which for UTF-8 is the order of the
\* sequences of code points.
RECURSIVE str_lt(_, _)
str_lt(a, b) ==
    IF b = <<>> THEN FALSE
    ELSE IF a = <<>> THEN TRUE
    ELSE IF a[1] # b[1] THEN a[1] < b[1]
    ELSE str_lt(Tail(a), Tail(b))

\* HashMap::into_iter().collect::<Vec<_>>() (line 70): the pairs of the map
\* in the order of its iteration, which is any order.
into_iter(m) ==
    LET n == Cardinality(DOMAIN m)
        orders == {g \in [1..n -> DOMAIN m] : \A i, j \in 1..n : i # j => g[i] # g[j]}
    IN {[i \in 1..n |-> <<g[i], m[g[i]]>>] : g \in orders}

\* The order of (String, String): by the first component, then the second.
pair_lt(a, b) == str_lt(a[1], b[1]) \/ (a[1] = b[1] /\ str_lt(a[2], b[2]))

\* sort leaving the Vec as it is.
sort_none(vec) == vec

RECURSIVE sort_insert(_, _)
sort_insert(vec, x) ==
    IF vec = <<>> THEN <<x>>
    ELSE IF pair_lt(x, vec[1]) THEN <<x>> \o vec
    ELSE <<vec[1]>> \o sort_insert(Tail(vec), x)

\* <[(String, String)]>::sort (line 71): stable, ascending.
RECURSIVE sort(_)
sort(vec) ==
    IF vec = <<>> THEN <<>> ELSE sort_insert(sort(Front(vec)), Last(vec))

\* take_while_assignment as a filter: every token that contains '='.
RECURSIVE filter_assignment(_)
filter_assignment(ts) ==
    IF ts = <<>> THEN <<>>
    ELSE (IF contains(ts[1], EQ) THEN <<ts[1]>> ELSE <<>>) \o filter_assignment(Tail(ts))

\* Iterator::take_while(|x| x.contains('='))
RECURSIVE take_while_assignment(_)
take_while_assignment(ts) ==
    IF ts = <<>> \/ ~contains(ts[1], EQ) THEN <<>>
    ELSE <<ts[1]>> \o take_while_assignment(Tail(ts))

\* collect_vars dropping the assignments that fail.
RECURSIVE collect_vars_skip_errors(_, _)
collect_vars_skip_errors(ts, acc) ==
    IF ts = <<>> THEN [kind |-> "Ok", err |-> NoResult, vars |-> acc]
    ELSE LET r == parse_env_line(ts[1]) IN
         collect_vars_skip_errors(Tail(ts),
             IF r.kind = "Ok" THEN Append(acc, <<r.key, r.val>>) ELSE acc)

\* collect::<Result<Vec<_>, _>>() over the line parser's results, taken one
\* at a time: the first result that is not Ok ends it.
RECURSIVE collect_vars(_, _)
collect_vars(ts, acc) ==
    IF ts = <<>> THEN [kind |-> "Ok", err |-> NoResult, vars |-> acc]
    ELSE LET r == parse_env_line(ts[1]) IN
         IF r.kind = "Ok" THEN collect_vars(Tail(ts), Append(acc, <<r.key, r.val>>))
         ELSE [kind |-> r.kind, err |-> r, vars |-> <<>>]

\* arg_env_files with the implicit file pushed after the named ones.
arg_env_files_default_last(m) ==
    [i \in 1..m.env_file |-> [path |-> i, is_default |-> FALSE]]
    \o (IF ~m.no_implicit_env_file THEN <<[path |-> 0, is_default |-> TRUE]>> ELSE <<>>)

\* The EnvFiles of lines 262-279: path 0 is the `.env` of the current
\* directory, path i the value of the i-th --file option.
arg_env_files(m) ==
    (IF ~m.no_implicit_env_file THEN <<[path |-> 0, is_default |-> TRUE]>> ELSE <<>>)
    \o [i \in 1..m.env_file |-> [path |-> i, is_default |-> FALSE]]

\* The inline assignments among the positional tokens (lines 281-283).
arg_assignments(rest) == take_while_assignment(rest)

\* The OptionsBuilder of Default::default() (line 260).
DefaultOptions ==
    [env_files |-> <<>>, vars |-> <<>>, command |-> <<>>, args |-> <<>>,
     ignore_env |-> FALSE, load_implicit_env_file |-> FALSE, print_warnings |-> FALSE]

\* with_arg_matches (lines 254-293): [kind, err, ob]. command is <<>> for
\* None and <<c>> for Some(c).
with_arg_matches(m) ==
    LET c == collect_vars(arg_assignments(m.rest), <<>>)
        n == Len(c.vars)
    IN IF c.kind # "Ok" THEN [kind |-> c.kind, err |-> c.err, ob |-> DefaultOptions]
       ELSE [kind |-> "Ok", err |-> NoResult,
             ob |-> [env_files |-> arg_env_files(m),
                     vars |-> c.vars,
                     command |-> IF n + 1 <= Len(m.rest) THEN <<m.rest[n + 1]>> ELSE <<>>,
                     args |-> SubSeq(m.rest, n + 2, Len(m.rest)),
                     ignore_env |-> m.ignore_env,
                     load_implicit_env_file |-> ~m.no_implicit_env_file,
                     print_warnings |-> ~m.quiet]]

\* resolve with the warning pushed for the implicit default file too.
resolve_warn_default(env_file, p) ==
    IF p.kind = "file" \/ (p.kind = "dir" /\ p.has_env)
    THEN [some |-> TRUE, warning |-> <<>>]
    ELSE [some |-> FALSE,
          warning |-> <<[path |-> env_file.path,
                         what |-> IF p.kind = "dir" THEN "no_env_file_in_dir"
                                  ELSE "does_not_exist"]>>]

\* The closure of filter_map (lines 39-62) for one EnvFile whose path is p on
\* the filesystem: the file to read, if any, and the warning pushed, if any.
resolve(env_file, p) ==
    IF p.kind = "dir"
    THEN IF p.has_env
         THEN [some |-> TRUE, warning |-> <<>>]
         ELSE [some |-> FALSE,
               warning |-> IF ~env_file.is_default
                           THEN <<[path |-> env_file.path, what |-> "no_env_file_in_dir"]>>
                           ELSE <<>>]
    ELSE IF p.kind = "file"
    THEN [some |-> TRUE, warning |-> <<>>]
    ELSE [some |-> FALSE,
          warning |-> IF ~env_file.is_default
                      THEN <<[path |-> env_file.path, what |-> "does_not_exist"]>>
                      ELSE <<>>]

\* Lines 36-64: each EnvFile resolved and then read, one after the other;
\* the first read that fails ends the iteration. acc is [kind, texts, warnings].
RECURSIVE load_files(_, _, _)
load_files(efs, f, acc) ==
    IF efs = <<>> THEN acc
    ELSE LET p == f[efs[1].path]
             r == resolve(efs[1], p)
             w == acc.warnings \o r.warning
         IN IF ~r.some THEN load_files(Tail(efs), f, [acc EXCEPT !.warnings = w])
            ELSE IF ~p.readable THEN [acc EXCEPT !.kind = "Err", !.warnings = w]
            ELSE load_files(Tail(efs), f,
                            [acc EXCEPT !.warnings = w, !.texts = Append(acc.texts, p.text)])

\* Whether some element of a sequence of Results is of the kind given.
has_kind(rs, kind) == \E i \in 1..Len(rs) : rs[i].kind = kind

\* The (key, value) pairs of the Results before the first that is not Ok.
RECURSIVE ok_prefix(_)
ok_prefix(rs) ==
    IF rs = <<>> \/ rs[1].kind # "Ok" THEN <<>>
    ELSE <<<<rs[1].key, rs[1].val>>>> \o ok_prefix(Tail(rs))

\* The first Result that is not Ok.
first_failure(rs) == rs[CHOOSE i \in 1..Len(rs) : rs[i].kind # "Ok" /\ \A j \in 1..(i - 1) : rs[j].kind = "Ok"]

\* collect_docs skipping the lines that fail.
RECURSIVE collect_docs_skip_errors(_, _)
collect_docs_skip_errors(texts, m) ==
    IF texts = <<>> THEN [kind |-> "Ok", err |-> NoResult, map |-> m]
    ELSE LET rs == parse_env_doc(texts[1])
             oks == SelectSeq(rs, LAMBDA r : r.kind = "Ok")
         IN collect_docs_skip_errors(Tail(texts),
                extend(m, [i \in 1..Len(oks) |-> <<oks[i].key, oks[i].val>>]))

\* Lines 65-68: flat_map parses one text at a time, whole (a panic in any
\* of its lines panics), and collect inserts its pairs until the first Err.
\* [kind, err, map]
RECURSIVE collect_docs(_, _)
collect_docs(texts, m) ==
    IF texts = <<>> THEN [kind |-> "Ok", err |-> NoResult, map |-> m]
    ELSE LET rs == parse_env_doc(texts[1]) IN
         IF has_kind(rs, "Panic") THEN [kind |-> "Panic", err |-> LinePanic, map |-> EmptyMap]
         ELSE IF has_kind(rs, "Err")
         THEN [kind |-> "Err", err |-> first_failure(rs), map |-> EmptyMap]
         ELSE collect_docs(Tail(texts), extend(m, ok_prefix(rs)))

\* merge with the inline assignments inserted before the files' declarations.
merge_inline_first(texts, inline) ==
    LET c == collect_docs(texts, extend(EmptyMap, inline)) IN
    IF c.kind # "Ok" THEN [kind |-> c.kind, err |-> c.err, map |-> EmptyMap]
    ELSE [kind |-> "Ok", err |-> NoResult, map |-> c.map]

\* Lines 65-69: the final mapping, the HashMap collected from the files and
\* extended with the inline assignments.
merge(texts, inline) ==
    LET c == collect_docs(texts, EmptyMap) IN
    IF c.kind # "Ok" THEN [kind |-> c.kind, err |-> c.err, map |-> EmptyMap]
    ELSE [kind |-> "Ok", err |-> NoResult, map |-> extend(c.map, inline)]

\* command_env without env_clear.
command_env_never_clear(inherited, ignore_env, vec) == extend(inherited, vec)

\* Lines 78-82: the environment of the command: the inherited one, cleared
\* by env_clear when ignore_env is set, with every pair of the Vec set.
command_env(inherited, ignore_env, vec) ==
    extend(IF ignore_env THEN EmptyMap ELSE inherited, vec)

----------------------------------------------------------------------------
(* The tokenizer run one character at a time.                              *)

ValueChars == {DQ, SQ, BS, HASH, SP, DOLLAR, LetterA, NBSP}

\* parse_value is called by parse_env_line only, on a trimmed string.
ValueInputs == {w \in SeqsUpTo(ValueChars, MaxLen) : trim(w) = w}

tok == [state |-> state, out |-> out, tk |-> tk, bad |-> <<>>]

\* The parts of the program a specification does not run.
IdleValue ==
    /\ v = <<>> /\ pos = 0 /\ state = <<>> /\ out = <<>> /\ tk = "idle" /\ ret = <<>>

IdleLine ==
    /\ line = <<>> /\ lpc = "idle" /\ key = <<>> /\ raw = <<>>
    /\ handed = <<>> /\ lres = NoResult

IdleDoc == text = <<>> /\ dpc = "idle" /\ outcomes = <<>>

NoError == [kind |-> "None", err |-> NoResult]

IdleRun ==
    /\ pc = "idle" /\ matches = <<>> /\ ambient = <<>> /\ fs = <<>>
    /\ opt_builder = DefaultOptions /\ warnings = <<>> /\ env_files = <<>>
    /\ env_vars = <<>> /\ stderr = <<>> /\ stdout = <<>> /\ launched = <<>>
    /\ result = NoError

InitValue ==
    /\ IdleLine
    /\ IdleDoc
    /\ IdleRun
    /\ v \in ValueInputs
    /\ pos = 0
    /\ state = tok_init.state
    /\ out = tok_init.out
    /\ tk = "loop"
    /\ ret = <<>>

\* The loop reads the next character of v.
ReadChar ==
    /\ tk = "loop"
    /\ pos < Len(v)
    /\ LET t == loop_body(tok, v[pos + 1]) IN
         /\ state' = t.state
         /\ out' = t.out
         /\ tk' = t.tk
    /\ pos' = pos + 1
    /\ UNCHANGED <<v, ret, lineVars, docVars, runVars>>

\* The loop has ended, by the end of v or by `break`: lines 231-240.
EndOfInput ==
    /\ \/ tk = "loop" /\ pos = Len(v)
       \/ tk = "break"
    /\ LET r == after_loop(tok) IN
         /\ tk' = r.tk
         /\ ret' = r.val
    /\ UNCHANGED <<v, pos, state, out, lineVars, docVars, runVars>>

NextValue == ReadChar \/ EndOfInput

SpecValue == InitValue /\ [][NextValue]_vars

----------------------------------------------------------------------------
(* parse_env_line run on one line, a step per statement.                   *)

LineChars == {EQ, SP, LetterA, Digit1, UNDERSCORE, DOT, DQ, NBSP}

\* Both callers of parse_env_line give it a line that contains '='
\* (lines 139 and 283).
LineInputs == {l \in SeqsUpTo(LineChars, MaxLineLen) : contains(l, EQ)}

InitLine ==
    /\ IdleValue
    /\ IdleDoc
    /\ IdleRun
    /\ line \in LineInputs
    /\ lpc = "split"
    /\ key = <<>>
    /\ raw = <<>>
    /\ handed = <<>>
    /\ lres = NoResult

\* Lines 145-146: the split and the trims.
SplitLine ==
    /\ lpc = "split"
    /\ key' = line_parts(line)[1]
    /\ raw' = raw_value(line_parts(line))
    /\ lpc' = "validate"
    /\ UNCHANGED <<line, handed, lres, tokVars, docVars, runVars>>

\* Lines 147-149: the check of the key, and the early return.
ValidateKey ==
    /\ lpc = "validate"
    /\ IF key_is_valid(key)
       THEN lpc' = "tokenize" /\ lres' = lres
       ELSE lpc' = "done" /\ lres' = LineErr("invalid_key", key, <<>>)
    /\ UNCHANGED <<line, key, raw, handed, tokVars, docVars, runVars>>

\* Lines 150-151: the call of parse_value and the Result.
TokenizeValue ==
    /\ lpc = "tokenize"
    /\ handed' = <<raw>>
    /\ lres' = line_result(key, parse_value(raw))
    /\ lpc' = "done"
    /\ UNCHANGED <<line, key, raw, tokVars, docVars, runVars>>

NextLine == SplitLine \/ ValidateKey \/ TokenizeValue

SpecLine == InitLine /\ [][NextLine]_vars

----------------------------------------------------------------------------
(* parse_env_doc applied to one text.                                      *)

DocChars == {NL, EQ, HASH, SP, LetterA}

InitDoc ==
    /\ IdleValue
    /\ IdleLine
    /\ IdleRun
    /\ text \in SeqsUpTo(DocChars, MaxTextLen)
    /\ dpc = "start"
    /\ outcomes = <<>>

ParseDoc ==
    /\ dpc = "start"
    /\ outcomes' = parse_env_doc(text)
    /\ dpc' = "done"
    /\ UNCHANGED <<text, tokVars, lineVars, runVars>>

NextDoc == ParseDoc

SpecDoc == InitDoc /\ [][NextDoc]_vars

----------------------------------------------------------------------------
(* run, from the parsed command line to the print or the exec.             *)

\* The contents of the declaration files.
Text1 == <<LetterA, EQ, Digit1, NL, LetterB, EQ, Digit1, NL>>

Text2 == <<HASH, LetterB, EQ, Digit8, NL, LetterA, EQ, Digit1, NL, LetterA, EQ, Digit2>>

Text3 == <<LetterB, EQ, Digit2, NL, Digit1, LetterA, EQ, Digit2, NL, LetterA, EQ, DQ>>

\* What a path can be: nothing, a directory without or with a `.env` file,
\* a file, a file whose read fails.
Missing == [kind |-> "missing", has_env |-> FALSE, readable |-> FALSE, text |-> <<>>]

DirWithout == [kind |-> "dir", has_env |-> FALSE, readable |-> FALSE, text |-> <<>>]

DirWith(t) == [kind |-> "dir", has_env |-> TRUE, readable |-> TRUE, text |-> t]

File(t) == [kind |-> "file", has_env |-> FALSE, readable |-> TRUE, text |-> t]

Unreadable == [kind |-> "file", has_env |-> FALSE, readable |-> FALSE, text |-> <<>>]

PathStates == {Missing, DirWithout, DirWith(Text2), File(Text1), File(Text3), Unreadable}

\* The positional tokens: assignments, a command, an assignment that fails.
TokA8 == <<LetterA, EQ, Digit8>>

TokA3 == <<LetterA, EQ, DQ, Digit3, DQ>>

TokCommand == <<LetterB>>

TokBad == <<LetterB, EQ, BS, Digit8>>

TokBadKey == <<Digit1, EQ, Digit2>>

TokOpenQuote == <<LetterA, EQ, DQ>>

RestPool ==
    {<<>>, <<TokA8>>, <<TokA8, TokA3>>, <<TokA8, TokCommand, TokA3>>, <<TokCommand>>,
     <<TokBad>>, <<TokA8, TokBad, TokCommand>>, <<TokBadKey, TokBad>>,
     <<TokA8, TokOpenQuote, TokCommand>>}

\* What clap hands to with_arg_matches: the flags, the number of --file
\* options and the positional tokens.
Matches ==
    [ignore_env : BOOLEAN, no_implicit_env_file : BOOLEAN, quiet : BOOLEAN,
     env_file : 0..MaxFiles, rest : RestPool]

\* The environments the process can have inherited.
AmbientEnvs ==
    {extend(EmptyMap, <<<<<<LetterA>>, <<LetterB>>>>, <<<<UNDERSCORE>>, <<LetterB>>>>>>),
     extend(EmptyMap, <<<<<<LetterB>>, <<Digit8>>>>>>)}

IoError == [kind |-> "Err", err |-> LineErr("io", <<>>, <<>>)]

Init ==
    /\ IdleValue
    /\ IdleLine
    /\ IdleDoc
    /\ pc = "start"
    /\ matches \in Matches
    /\ ambient = <<>>
    /\ fs = <<>>
    /\ opt_builder = DefaultOptions
    /\ warnings = <<>>
    /\ env_files = <<>>
    /\ env_vars = <<>>
    /\ stderr = <<>>
    /\ stdout = <<>>
    /\ launched = <<>>
    /\ result = NoError

\* Line 34: with_arg_matches, and the `?`.
BuildOptions ==
    /\ pc = "start"
    /\ LET r == with_arg_matches(matches) IN
         IF r.kind = "Ok"
         THEN opt_builder' = r.ob /\ pc' = "built" /\ result' = result
         ELSE opt_builder' = opt_builder /\ pc' = "done"
              /\ result' = [kind |-> r.kind, err |-> r.err]
    /\ UNCHANGED <<matches, ambient, fs, warnings, env_files, env_vars, stderr, stdout,
                   launched, tokVars, lineVars, docVars>>

\* Lines 35-64: the paths are resolved and the files read; f is what the
\* paths are on the filesystem.
LoadFiles ==
    /\ pc = "built"
    /\ \E f \in [{opt_builder.env_files[i].path : i \in 1..Len(opt_builder.env_files)}
                    -> PathStates] :
         LET l == load_files(opt_builder.env_files, f,
                             [kind |-> "Ok", texts |-> <<>>, warnings |-> <<>>])
         IN /\ fs' = f
            /\ warnings' = l.warnings
            /\ IF l.kind = "Ok"
               THEN env_files' = l.texts /\ pc' = "loaded" /\ result' = result
               ELSE env_files' = env_files /\ pc' = "done" /\ result' = IoError
    /\ UNCHANGED <<matches, ambient, opt_builder, env_vars, stderr, stdout, launched,
                   tokVars, lineVars, docVars>>

\* Lines 65-89: the merge and the sort, the warnings, then the exec of the
\* command or the print of the mapping. An exec that succeeds does not return.
\* `it` is the order in which the HashMap is iterated; `inherited` is the
\* environment of the process, which the command inherits at the exec.
Finish ==
    /\ pc = "loaded"
    /\ LET m == merge(env_files, opt_builder.vars) IN
         IF m.kind # "Ok"
         THEN /\ result' = [kind |-> m.kind, err |-> m.err]
              /\ UNCHANGED <<ambient, env_vars, stderr, stdout, launched>>
         ELSE \E it \in into_iter(m.map) : \E inherited \in AmbientEnvs :
              /\ ambient' = inherited
              /\ env_vars' = sort(it)
              /\ stderr' = IF opt_builder.print_warnings THEN warnings ELSE <<>>
              /\ IF opt_builder.command # <<>>
                 THEN /\ launched' = <<[command |-> opt_builder.command[1],
                                        args |-> opt_builder.args,
                                        env |-> command_env(inherited, opt_builder.ignore_env,
                                                            env_vars')]>>
                      /\ stdout' = stdout
                      /\ result' = [kind |-> "Exec", err |-> NoResult]
                 ELSE /\ stdout' = env_vars'
                      /\ launched' = launched
                      /\ result' = [kind |-> "Ok", err |-> NoResult]
    /\ pc' = "done"
    /\ UNCHANGED <<matches, fs, opt_builder, warnings, env_files,
                   tokVars, lineVars, docVars>>

Next == BuildOptions \/ LoadFiles \/ Finish

Spec == Init /\ [][Next]_vars

----------------------------------------------------------------------------
(* Claims about the merge, checked under Spec.                             *)

\* run ended with the mapping printed or the command launched.
Succeeded == pc = "done" /\ result.kind \in {"Ok", "Exec"}

\* The paths of the file sources in their order: the implicit default file
\* first, unless suppressed, then the named files in the order given.
SourcePaths ==
    (IF matches.no_implicit_env_file THEN <<>> ELSE <<0>>)
    \o [i \in 1..matches.env_file |-> i]

\* The path leads to a declaration file.
Resolves(p) == fs[p].kind = "file" \/ (fs[p].kind = "dir" /\ fs[p].has_env)

\* The texts of the file sources that exist, in source order.
SourceTexts ==
    LET found == SelectSeq(SourcePaths, Resolves)
    IN [i \in 1..Len(found) |-> fs[found[i]].text]

\* The outcomes of all the lines of the texts given, in order.
RECURSIVE Outcomes(_)
Outcomes(texts) ==
    IF texts = <<>> THEN <<>> ELSE parse_env_doc(texts[1]) \o Outcomes(Tail(texts))

\* The inline assignments: the tokens before the first token without `=`.
InlineTokens ==
    LET n == Cardinality({i \in 1..Len(matches.rest) :
                            \A j \in 1..i : contains(matches.rest[j], EQ)})
    IN SubSeq(matches.rest, 1, n)

InlineKeys == {parse_env_line(InlineTokens[i]).key : i \in 1..Len(InlineTokens)}

\* The final mapping, as the set of its (key, value) pairs, and its keys.
FinalPairs == {env_vars[i] : i \in 1..Len(env_vars)}

FinalKeys == {env_vars[i][1] : i \in 1..Len(env_vars)}

\* C1: when the file sources all parse and there is no inline assignment for
\* key K, the final mapping holds K exactly when some source declares it, and
\* its value is that of the last declaration of K in source order (files in
\* list order, the implicit default file first, lines in file order).
C1_LastDeclarationWins ==
    Succeeded =>
        LET ds == Outcomes(SourceTexts)
            declared == {ds[j].key : j \in 1..Len(ds)}
        IN \A K \in (declared \cup FinalKeys) \ InlineKeys :
              LET at == {j \in 1..Len(ds) : ds[j].key = K}
                  last == CHOOSE j \in at : \A i \in at : i <= j
              IN /\ at # {}
                 /\ <<K, ds[last].val>> \in FinalPairs
                 /\ \A pr \in FinalPairs : pr[1] = K => pr[2] = ds[last].val

\* The implicit file declares A=1 and B=1, the named directory's file
\* declares A=1 and then A=2: A is 2 and B is 1.
C1_Witness ==
    /\ Succeeded
    /\ InlineTokens = <<>>
    /\ DOMAIN fs = {0, 1}
    /\ fs[0] = File(Text1)
    /\ fs[1] = DirWith(Text2)
    /\ env_vars = <<<<<<LetterA>>, <<Digit2>>>>, <<<<LetterB>>, <<Digit1>>>>>>

\* C2: in a run that succeeds, a key with an inline assignment has the value
\* of its last inline assignment, whatever the files declare for it.
C2_InlineWins ==
    Succeeded =>
        \A i \in 1..Len(InlineTokens) :
            LET a == parse_env_line(InlineTokens[i]) IN
            (\A j \in (i + 1)..Len(InlineTokens) : parse_env_line(InlineTokens[j]).key # a.key)
                => /\ <<a.key, a.val>> \in FinalPairs
                   /\ \A pr \in FinalPairs : pr[1] = a.key => pr[2] = a.val

\* Two inline assignments of A, and files that declare A: A has the value of
\* the second inline assignment.
C2_Witness ==
    /\ Succeeded
    /\ matches.rest = <<TokA8, TokA3>>
    /\ env_files = <<Text1, Text2>>
    /\ <<<<LetterA>>, <<Digit3>>>> \in FinalPairs

\* C3: when a line of a file that was loaded yields an error outcome, run
\* returns that error (of several, the first in source order), prints no
\* KEY=VALUE line and launches no command: no declaration is applied.
C3_ParseErrorAborts ==
    [][(pc = "loaded" /\ has_kind(Outcomes(env_files), "Err")) =>
          LET os == Outcomes(env_files)
              bad == {j \in 1..Len(os) : os[j].kind = "Err"}
              first == CHOOSE j \in bad : \A i \in bad : j <= i
          IN /\ pc' = "done"
             /\ result' = [kind |-> "Err", err |-> os[first]]
             /\ stdout' = <<>>
             /\ launched' = <<>>
             /\ env_vars' = <<>>
      ]_vars

\* A run with a valid file, a file with a valid line and then two bad ones,
\* an inline assignment and a command has failed with the first error,
\* nothing printed and nothing launched.
C3_Witness ==
    /\ pc = "done"
    /\ env_files = <<Text1, Text3>>
    /\ opt_builder.vars # <<>>
    /\ opt_builder.command # <<>>
    /\ result.kind = "Err"
    /\ result.err.err = "invalid_key"
    /\ stdout = <<>>
    /\ launched = <<>>

----------------------------------------------------------------------------
(* Claims about the tokenizer, checked under SpecValue.                    *)

QuoteStates == {"DoubleQuote", "SingleQuote"}

\* parse_value has returned or panicked.
TokDone == tk \notin {"loop", "break"}

\* The loop is about to read character c with the stack st.
Reading(st, c) == tk = "loop" /\ pos < Len(v) /\ state = st /\ v[pos + 1] = c

\* The tokenizer is inside a quote that has been opened and not closed.
InsideQuote == state # <<>> /\ state[1] \in QuoteStates

\* C4 as stated: a value whose quote is opened and never closed always fails
\* with the unmatched-quote error, whatever follows the opening quote.
C4_UnclosedQuoteAlwaysUnmatched ==
    (TokDone /\ InsideQuote) => tk = "unmatched_quotes"

\* C4 as amended: a value whose quote is opened and never closed always
\* fails, never succeeds and never panics; the error is the unmatched-quote
\* error unless the value ends in an unresolved backslash inside the quote,
\* and then it is the generic parse error.
C4_UnclosedQuoteFails ==
    (TokDone /\ InsideQuote) =>
        /\ pos = Len(v)
        /\ tk = IF Last(state) = "Escape" THEN "error_parsing_value"
                ELSE "unmatched_quotes"

\* An unclosed quote followed by further characters has been rejected.
C4_Witness ==
    /\ tk = "unmatched_quotes"
    /\ v[1] \in {DQ, SQ}
    /\ Len(v) >= 3

\* C5 as stated: a `#` read inside a quoted segment is appended literally and
\* the quote stays open; a `#` read in the Start state ends the tokenizing
\* with nothing appended; and the value then returned is what was
\* accumulated, with its trailing whitespace removed.
C5_HashCommentOnlyUnquoted ==
    [][/\ (tk = "loop" /\ pos < Len(v) /\ v[pos + 1] = HASH /\ InsideQuote) =>
            /\ tk' = "loop"
            /\ state'[1] = state[1]
            /\ out' = IF Last(state) = "Escape" THEN out \o <<BS, HASH>>
                      ELSE Append(out, HASH)
       /\ Reading(<<"Start">>, HASH) => (tk' = "break" /\ out' = out)
       /\ (tk = "break" /\ tk' = "ok") => ret' = trim_end(out)
      ]_vars

\* C6: inside a quote, a backslash followed by the quote's own quote
\* character or by a backslash appends the bare character, a backslash
\* followed by any other character appends the backslash and the character,
\* and in both cases the tokenizer is back in the same quote state.
C6_EscapeInQuote ==
    [][\A q \in QuoteStates :
         (tk = "loop" /\ pos < Len(v) /\ state = <<q, "Escape">>) =>
            LET c == v[pos + 1]
                own == IF q = "DoubleQuote" THEN DQ ELSE SQ
            IN /\ tk' = "loop"
               /\ state' = <<q>>
               /\ out' = IF c \in {own, BS} THEN Append(out, c)
                         ELSE out \o <<BS, c>>
      ]_vars

\* An escaped quote character was read inside its quote, which stays open.
C6_Witness ==
    /\ pos >= 3
    /\ v[pos - 1] = BS
    /\ v[pos] = SQ
    /\ state = <<"SingleQuote">>
    /\ out # <<>>
    /\ Last(out) = SQ
    /\ tk = "loop"

\* C7: after a backslash read in the Start state, one of `"`, `'`, space,
\* `$`, `\` is appended bare and the tokenizer stays unquoted; any other
\* character fails the value with the invalid-escape error, and no value is
\* returned.
C7_EscapeUnquoted ==
    [][/\ (tk = "loop" /\ pos < Len(v) /\ state = <<"Start", "Escape">>) =>
            LET c == v[pos + 1] IN
            IF c \in {DQ, SQ, SP, DOLLAR, BS}
            THEN tk' = "loop" /\ state' = <<"Start">> /\ out' = Append(out, c)
            ELSE tk' = "invalid_escape" /\ ret' = <<>>
       /\ tk = "invalid_escape" => (tk' = "invalid_escape" /\ ret' = <<>>)
      ]_vars

\* An unquoted backslash was followed by a character it cannot escape.
C7_Witness ==
    /\ tk = "invalid_escape"
    /\ pos >= 2
    /\ v[pos - 1] = BS
    /\ v[pos] = LetterA

----------------------------------------------------------------------------
(* Claims about the line parser, checked under SpecLine.                   *)

\* t is s without its leading and trailing whitespace.
IsTrimOf(t, s) ==
    \E a \in 0..Len(s) : \E b \in 0..(Len(s) - a) :
        /\ t = SubSeq(s, a + 1, Len(s) - b)
        /\ \A i \in 1..a : is_whitespace(s[i])
        /\ \A i \in (Len(s) - b + 1)..Len(s) : is_whitespace(s[i])
        /\ t = <<>> \/ (~is_whitespace(t[1]) /\ ~is_whitespace(t[Len(t)]))

\* A key the specification accepts: not empty, first character an ASCII
\* letter or an underscore, no whitespace character.
AcceptableKey(k) ==
    /\ Len(k) > 0
    /\ k[1] \in (65..90) \cup (97..122) \cup {UNDERSCORE}
    /\ \A i \in 1..Len(k) : ~is_whitespace(k[i])

\* C8: the line parser accepts the key, and goes on to tokenize the value,
\* if and only if the trimmed key is not empty, starts with an ASCII letter
\* or an underscore and holds no whitespace; for every other key it returns
\* the error that names the key, and the value is never tokenized.
C8_KeyAcceptedIffValid ==
    lpc = "done" =>
        IF AcceptableKey(key)
        THEN handed = <<raw>> /\ lres.err # "invalid_key"
        ELSE lres = LineErr("invalid_key", key, <<>>) /\ handed = <<>>

\* A key with a `.` after its first character was accepted, its value parsed.
C8_Witness ==
    /\ lpc = "done"
    /\ key = <<LetterA, DOT>>
    /\ lres.kind = "Ok"
    /\ lres.key = key

\* C10: the line is split on its first `=` only: the key is the trimmed text
\* before it, the raw value handed to the tokenizer is the trimmed whole
\* remainder after it, and a returned key never contains `=`.
C10_SplitOnFirstEq ==
    lpc # "split" =>
        \E i \in 1..Len(line) :
            /\ line[i] = EQ
            /\ \A j \in 1..(i - 1) : line[j] # EQ
            /\ IsTrimOf(key, SubSeq(line, 1, i - 1))
            /\ IsTrimOf(raw, SubSeq(line, i + 1, Len(line)))
            /\ handed # <<>> => handed = <<raw>>
            /\ lres.kind = "Ok" => (lres.key = key /\ ~contains(lres.key, EQ))

\* A line with a second `=` was parsed, and the second `=` is in the value.
C10_Witness ==
    /\ lpc = "done"
    /\ lres.kind = "Ok"
    /\ contains(lres.val, EQ)
    /\ Len(line) = MaxLineLen

----------------------------------------------------------------------------
(* Claims about the document parser, checked under SpecDoc.                *)

\* The positions of the text at which a line starts.
LineStarts(t) == {a \in 1..Len(t) : a = 1 \/ t[a - 1] = NL}

\* The line of the text that starts at a, without its line ending.
LineAt(t, a) ==
    LET ends == {e \in a..(Len(t) + 1) : e = Len(t) + 1 \/ t[e] = NL}
        e == CHOOSE x \in ends : \A y \in ends : x <= y
    IN SubSeq(t, a, e - 1)

\* The line contains `=` and its first non-whitespace character is not `#`.
Eligible(l) ==
    /\ \E i \in 1..Len(l) : l[i] = EQ
    /\ ~\E i \in 1..Len(l) : l[i] = HASH /\ \A j \in 1..(i - 1) : is_whitespace(l[j])

EligibleStarts(t) == {a \in LineStarts(t) : Eligible(LineAt(t, a))}

\* C9: the document parser produces exactly one outcome, in line order, for
\* each line that contains `=` and whose first non-whitespace character is
\* not `#`, and no outcome for any other line.
C9_OneOutcomePerDeclaration ==
    dpc = "done" =>
        /\ Len(outcomes) = Cardinality(EligibleStarts(text))
        /\ \A a \in EligibleStarts(text) :
              outcomes[Cardinality({b \in EligibleStarts(text) : b <= a})]
                  = parse_env_line(LineAt(text, a))

\* A comment line that contains `=` gave no outcome, the declaration after
\* it gave one.
C9_Witness ==
    /\ dpc = "done"
    /\ text = <<SP, HASH, EQ, NL, EQ>>
    /\ Len(outcomes) = 1
    /\ outcomes[1].err = "invalid_key"

----------------------------------------------------------------------------
(* The round trip of a value through the line parser, under SpecValue.     *)

\* V with each `"` and each `\` of it preceded by a backslash.
RECURSIVE escaped(_)
escaped(V) ==
    IF V = <<>> THEN <<>>
    ELSE (IF V[1] \in {DQ, BS} THEN <<BS, V[1]>> ELSE <<V[1]>>) \o escaped(Tail(V))

\* V rendered with quoting and escaping.
rendered(V) == <<DQ>> \o escaped(V) \o <<DQ>>

\* Valid keys: not empty, first character a letter or an underscore, no
\* whitespace (and no `=`).
RoundTripKeys == {<<LetterA>>, <<UNDERSCORE, Digit1>>, <<LetterA, DOT>>}

\* C11: for every valid key K and every value V the tokenizer has returned,
\* the line parser applied to the line K=<V rendered with quoting and
\* escaping> returns exactly (K, V).
C11_RoundTrip ==
    tk = "ok" =>
        \A K \in RoundTripKeys :
            parse_env_line(K \o <<EQ>> \o rendered(ret)) = LineOk(K, ret)

----------------------------------------------------------------------------
(* Claims about the files, the output and the command, checked under Spec. *)

\* Every inline assignment parses.
InlineOk ==
    \A i \in 1..Len(InlineTokens) : parse_env_line(InlineTokens[i]).kind = "Ok"

\* The explicitly named paths that lead to no declaration file, in the order
\* they were given.
Unresolved == SelectSeq([i \in 1..matches.env_file |-> i], LAMBDA p : ~Resolves(p))

\* One warning for each of them: for a directory, that it holds no `.env`
\* file; otherwise, that the path does not exist.
ExpectedWarnings ==
    [i \in 1..Len(Unresolved) |->
        [path |-> Unresolved[i],
         what |-> IF fs[Unresolved[i]].kind = "dir" THEN "no_env_file_in_dir"
                  ELSE "does_not_exist"]]

\* Every declaration file that exists can be read, and all its lines parse.
SourcesFine ==
    /\ \A i \in 1..Len(SourcePaths) :
          Resolves(SourcePaths[i]) => fs[SourcePaths[i]].readable
    /\ ~has_kind(Outcomes(SourceTexts), "Err")

\* C12: paths that lead to no declaration file do not fail the run. When
\* the inline assignments parse and the files that do exist are read and
\* parse, the run goes on with the texts of the existing files only and
\* succeeds; it prints, unless quiet, exactly one warning for each explicitly
\* named path that is missing or is a directory without `.env`, and none for
\* the implicit default file.
C12_MissingPathIsWarning ==
    (pc \in {"loaded", "done"} /\ InlineOk /\ SourcesFine) =>
        /\ warnings = ExpectedWarnings
        /\ env_files = SourceTexts
        /\ pc = "done" =>
              /\ Succeeded
              /\ stderr = IF matches.quiet THEN <<>> ELSE ExpectedWarnings

\* The implicit file and a named path are missing, another named path is a
\* directory without `.env`: two warnings, and the inline assignment printed.
C12_Witness ==
    /\ pc = "done"
    /\ result.kind = "Ok"
    /\ DOMAIN fs = {0, 1, 2}
    /\ fs[0] = Missing
    /\ fs[1] = Missing
    /\ fs[2] = DirWithout
    /\ stderr = <<[path |-> 1, what |-> "does_not_exist"],
                  [path |-> 2, what |-> "no_env_file_in_dir"]>>
    /\ stdout = <<<<<<LetterA>>, <<Digit8>>>>>>

\* The outcomes of all the declarations in the order of their precedence:
\* those of the files in source order, then the inline assignments.
Declarations ==
    Outcomes(SourceTexts)
    \o [i \in 1..Len(InlineTokens) |-> parse_env_line(InlineTokens[i])]

\* The final mapping as the file contents and the inline assignments alone
\* determine it: for each key, the value of its last declaration.
ExpectedPairs ==
    LET ds == Declarations IN
    {<<ds[j].key, ds[j].val>> :
        j \in {j \in 1..Len(ds) : \A i \in (j + 1)..Len(ds) : ds[i].key # ds[j].key}}

\* C13: a run that succeeds in print mode prints one KEY=VALUE line for
\* each key of the final mapping, each key once, in strictly ascending order
\* of the keys; what it prints is determined by the file contents and the
\* inline assignments, whatever the order of the hash map's iteration and
\* whatever the inherited environment.
C13_PrintSortedUnique ==
    (pc = "done" /\ result.kind = "Ok") =>
        /\ \A i \in 1..(Len(stdout) - 1) : str_lt(stdout[i][1], stdout[i + 1][1])
        /\ {stdout[i] : i \in 1..Len(stdout)} = ExpectedPairs
        /\ stdout = env_vars

\* Two keys were printed, A before B, A with the value given inline and B
\* with the value of a file, in an environment that sets A.
C13_Witness ==
    /\ pc = "done"
    /\ result.kind = "Ok"
    /\ <<LetterA>> \in DOMAIN ambient
    /\ matches.rest = <<TokA8, TokA3>>
    /\ stdout = <<<<<<LetterA>>, <<Digit3>>>>, <<<<LetterB>>, <<Digit1>>>>>>

----------------------------------------------------------------------------
(* Claims about the end of the tokenizing, checked under SpecValue.        *)

\* The loop is over: v was read to its end, or a comment ended it.
LoopEnded == (tk = "loop" /\ pos = Len(v)) \/ tk = "break"

\* C14: when the loop ends with nothing open, the tokenizer returns the
\* accumulated output without its maximal trailing run of whitespace
\* characters, whatever their width in bytes and wherever they came from,
\* and otherwise as it is; the trim never fails, and the value returned never
\* ends in a whitespace character.
C14_TrimReturned ==
    [][(LoopEnded /\ state = <<"Start">>) =>
          /\ tk' = "ok"
          /\ ret' = trim_end(out)
          /\ ret' = <<>> \/ ~is_whitespace(Last(ret'))
      ]_vars

\* C15: at the end of the input the tokenizer succeeds if and only if the
\* stack is exactly [Start]; otherwise it fails, with the unmatched-quote
\* error when the top of the stack is a quote state and with the generic
\* parse error when the top is Escape.
C15_EndOfInputDecides ==
    [][(tk = "loop" /\ pos = Len(v)) =>
          tk' = IF state = <<"Start">> THEN "ok"
                ELSE IF Last(state) \in QuoteStates THEN "unmatched_quotes"
                ELSE "error_parsing_value"
      ]_vars

----------------------------------------------------------------------------
(* Claims about the command, checked under Spec.                           *)

\* C16: the environment of the launched command is, with the ignore-env
\* flag, exactly the final mapping; without it, the inherited environment
\* with every entry of the final mapping applied on top: an inherited
\* variable the mapping does not name keeps its value, one it names has the
\* mapping's value.
C16_CommandEnvironment ==
    (pc = "done" /\ result.kind = "Exec") =>
        LET env == launched[1].env IN
        /\ DOMAIN env = FinalKeys \cup (IF matches.ignore_env THEN {} ELSE DOMAIN ambient)
        /\ \A pr \in FinalPairs : env[pr[1]] = pr[2]
        /\ \A k \in DOMAIN env \ FinalKeys : env[k] = ambient[k]

\* Without the flag, the command has the inherited `_` and the inline value
\* of A in place of the inherited one; B comes from a file.
C16_Witness ==
    /\ pc = "done"
    /\ result.kind = "Exec"
    /\ ~matches.ignore_env
    /\ <<LetterA>> \in DOMAIN ambient
    /\ ambient[<<LetterA>>] = <<LetterB>>
    /\ DOMAIN launched[1].env = {<<LetterA>>, <<LetterB>>, <<UNDERSCORE>>}
    /\ launched[1].env[<<LetterA>>] = <<Digit8>>
    /\ launched[1].env[<<UNDERSCORE>>] = <<LetterB>>
    /\ launched[1].env[<<LetterB>>] = <<Digit1>>

\* The position of the first positional token without `=`, one past the
\* last token when every token has one.
CommandAt ==
    LET without == {i \in 1..Len(matches.rest) : ~contains(matches.rest[i], EQ)}
    IN IF without = {} THEN Len(matches.rest) + 1
       ELSE CHOOSE i \in without : \A j \in without : i <= j

\* C17: once the command line is taken apart, the inline assignments are
\* the tokens before the first token without `=`, each parsed by the line
\* parser; that token is the command, and every token after it is an
\* argument of the command, unchanged, never an assignment, with `=` or
\* without. With no token without `=` there is no command, and a run that
\* succeeds prints the mapping; with one, it launches that command with
\* those arguments and prints nothing.
C17_PositionalSplit ==
    (pc \in {"built", "loaded"} \/ Succeeded) =>
        /\ Len(opt_builder.vars) = CommandAt - 1
        /\ \A i \in 1..(CommandAt - 1) :
              /\ contains(matches.rest[i], EQ)
              /\ LineOk(opt_builder.vars[i][1], opt_builder.vars[i][2])
                    = parse_env_line(matches.rest[i])
        /\ opt_builder.command =
              IF CommandAt <= Len(matches.rest) THEN <<matches.rest[CommandAt]>> ELSE <<>>
        /\ opt_builder.args = SubSeq(matches.rest, CommandAt + 1, Len(matches.rest))
        /\ Succeeded =>
              IF CommandAt > Len(matches.rest)
              THEN result.kind = "Ok" /\ launched = <<>> /\ stdout = env_vars
              ELSE /\ result.kind = "Exec"
                   /\ stdout = <<>>
                   /\ Len(launched) = 1
                   /\ launched[1].command = matches.rest[CommandAt]
                   /\ launched[1].args = SubSeq(matches.rest, CommandAt + 1, Len(matches.rest))

\* The token A=3 after the command B is the command's argument: the command
\* was launched with it, and A has the value of the assignment before B.
C17_Witness ==
    /\ pc = "done"
    /\ result.kind = "Exec"
    /\ matches.rest = <<TokA8, TokCommand, TokA3>>
    /\ launched[1].command = TokCommand
    /\ launched[1].args = <<TokA3>>
    /\ env_vars = <<<<<<LetterA>>, <<Digit8>>>>>>

\* C18: the inline assignments are parsed by the line parser, keys
\* validated and values tokenized as those of a file line, before any
\* declaration file is resolved or read: when an inline assignment fails,
\* the run ends with the error of the first that fails, no path having been
\* resolved, no file read, no warning collected or printed, nothing printed
\* and no command launched.
C18_InlineParsedFirst ==
    pc # "start" =>
        IF InlineOk
        THEN opt_builder.vars =
                [i \in 1..Len(InlineTokens) |->
                    <<parse_env_line(InlineTokens[i]).key, parse_env_line(InlineTokens[i]).val>>]
        ELSE LET bad == {i \in 1..Len(InlineTokens) :
                            parse_env_line(InlineTokens[i]).kind # "Ok"}
                 first == CHOOSE i \in bad : \A j \in bad : i <= j
             IN /\ pc = "done"
                /\ result = [kind |-> "Err", err |-> parse_env_line(InlineTokens[first])]
                /\ fs = <<>>
                /\ env_files = <<>>
                /\ warnings = <<>>
                /\ stderr = <<>>
                /\ stdout = <<>>
                /\ launched = <<>>

\* An assignment with an unmatched quote, between a valid assignment and a
\* command, with two files named and warnings not suppressed: the run ended
\* with that error and touched no path.
C18_Witness ==
    /\ pc = "done"
    /\ matches.rest = <<TokA8, TokOpenQuote, TokCommand>>
    /\ matches.env_file = MaxFiles
    /\ ~matches.quiet
    /\ result.kind = "Err"
    /\ result.err.err = "unmatched_quotes"
    /\ fs = <<>>
    /\ launched = <<>>

----------------------------------------------------------------------------
(* The stack of the tokenizer, checked under SpecValue.                    *)

\* The stack is not empty, at most two deep, its bottom is Start or a quote
\* state, and an Escape is only the top of a stack two deep.
StackShape ==
    /\ Len(state) \in {1, 2}
    /\ state[1] \in {"Start", "DoubleQuote", "SingleQuote"}
    /\ Len(state) = 2 => state[2] = "Escape"

\* C19: the stack has that shape before and after every character of every
\* input; so when an Escape is popped the state under it is Start or a quote
\* state, never Escape, and neither the read of the top of the stack nor the
\* match on the state under an Escape can panic.
C19_StackInvariant ==
    /\ StackShape
    /\ tk = "loop" /\ Len(state) = 2 => Front(state)[1] \in {"Start", "DoubleQuote", "SingleQuote"}
    /\ tk = "panic" => (pos = Len(v) \/ v[pos] = HASH) /\ state = <<"Start">>

\* A backslash was read inside a single quote: the stack is two deep, the
\* Escape on top of the quote state.
C19_Witness ==
    /\ tk = "loop"
    /\ pos >= 2
    /\ v[pos] = BS
    /\ state = <<"SingleQuote", "Escape">>

\* C20: a `#` read in the Start state ends the loop, and the tokenizer then
\* always succeeds: it returns what it returns for the text before the `#`
\* alone, whatever follows the `#` (an unclosed quote, an invalid escape, a
\* trailing backslash).
C20_CommentAlwaysSucceeds ==
    [][/\ Reading(<<"Start">>, HASH) => tk' = "break"
       /\ tk = "break" =>
            /\ tk' = "ok"
            /\ parse_value(SubSeq(v, 1, pos - 1)).tk = "ok"
            /\ ret' = parse_value(SubSeq(v, 1, pos - 1)).val
      ]_vars

====
